---- MODULE Spec2Model ----
(***************************************************************************)
(* Model of the playback manager of src/src/services/player.ts: the        *)
(* playback state machine (connect / disconnect / play / pause / seek),    *)
(* the content cache on disk (temporary file, rename to the final path),   *)
(* the format selection of getStream and the position tick.                *)
(*                                                                         *)
(* Asynchronous methods are split at their awaits: a suspended call is a   *)
(* task whose pc names the await it waits at, and one action runs the code *)
(* from one await to the next.                                             *)
(***************************************************************************)
EXTENDS Integers, Sequences, FiniteSets, Bags, TLC

VARIABLES
    status,               \* this.status
    voiceConnection,      \* this.voiceConnection !== null
    connListening,        \* a 'disconnect' listener is attached to the connection
    dispatcher,           \* this.dispatcher
    playPositionInterval, \* this.playPositionInterval (0 = undefined)
    timers,               \* the interval timers that are live in the event loop
    positionInSeconds,    \* this.positionInSeconds
    queue,                \* the external queue, queue.get()
    temp,                 \* file at getCachedPathTemp(url), per url
    final,                \* file at getCachedPath(url), per url
    writers,              \* the cache write streams created by getStream (a bag)
    tasks,                \* the asynchronous calls in flight (a bag of tasks)
    last                  \* what the last step did (observation only)

vars == <<status, voiceConnection, connListening, dispatcher,
          playPositionInterval, timers, positionInSeconds, queue, temp, final,
          writers, tasks, last>>

\* ---------------------------------------------------------------- bounds
MaxTasks == 1          \* asynchronous calls in flight at once
MaxWriters == 2        \* cache write streams open at once
MaxQueue == 2          \* length of the external queue
MaxPos == 1            \* the tick stops counting here
MaxFormats == 2        \* length of the encoding list ytdl.getInfo returns
MaxRetries == 1        \* maxRetries of waitForCache (50 by default in the source, scaled down)
MaxTimers == 3         \* interval timer handles
MaxRewind == 1         \* forwardSeek is not followed below -MaxRewind

PLAYING == "PLAYING"
PAUSED == "PAUSED"
DISCONNECTED == "DISCONNECTED"
STATUS == {PLAYING, PAUSED, DISCONNECTED}

Urls == {"A", "B"}
TimerIds == 1..MaxTimers

\* info.player_response.videoDetails.isLiveContent of the item at url
IsLiveContent(url) == url = "B"

\* ---------------------------------------------------------------- formats
TargetSampleRate == 48000
LiveItags == {128, 127, 120, 96, 95, 94, 93}

\* parseInt(s, 10) on the strings the encodings carry
ParseInt(s) ==
    CASE s = "48000" -> 48000
      [] s = "44100" -> 44100
      [] OTHER -> -1

Fmt(itag, codecs, container, rate, live, audioBitrate, averageBitrate, bitrate) ==
    [itag |-> itag, codecs |-> codecs, container |-> container,
     audioSampleRate |-> rate, live |-> live, audioBitrate |-> audioBitrate,
     averageBitrate |-> averageBitrate, bitrate |-> bitrate]

\* The encodings the remote source may offer (0 = the field is absent).
FormatSet ==
    { Fmt(251, "opus", "webm", "48000", FALSE, 160, 130, 140),
      Fmt(250, "opus", "webm", "48000", FALSE, 64, 70, 0),
      Fmt(249, "opus", "webm", "undefined", FALSE, 48, 50, 60),
      Fmt(171, "vorbis", "webm", "44100", FALSE, 128, 120, 125),
      Fmt(140, "mp4a.40.2", "mp4", "44100", FALSE, 128, 128, 0),
      Fmt(18, "avc1, mp4a", "mp4", "48000", FALSE, 96, 0, 500),
      Fmt(95, "avc1, mp4a", "ts", "48000", TRUE, 256, 0, 0),
      Fmt(93, "avc1, mp4a", "ts", "48000", TRUE, 128, 0, 0),
      Fmt(300, "avc1, mp4a", "ts", "48000", TRUE, 300, 0, 0) }

NullFormat == Fmt(0, "none", "none", "undefined", FALSE, 0, 0, 0)

FormatLists == UNION { [1..n -> FormatSet] : n \in 0..MaxFormats }

\* The lists the playback specification answers getInfo with: every outcome of the
\* format choice (direct, transcoded, none suitable, empty list) occurs among them;
\* SpecFormats runs the choice on all of FormatLists.
ShortLists == { fs \in FormatLists : Len(fs) <= 1 }

\* Array.prototype.find: the first element satisfying P, NullFormat for undefined
Find(seq, P(_)) ==
    LET S == { i \in 1..Len(seq) : P(seq[i]) }
    IN  IF S = {} THEN NullFormat
        ELSE seq[CHOOSE i \in S : \A j \in S : i <= j]

Filter(seq, P(_)) == SelectSeq(seq, P)

\* Array.prototype.sort with (a, b) => key(b) - key(a): stable, descending.
RECURSIVE InsertDesc(_, _, _)
InsertDesc(x, kx, ks) ==
    \* ks: sequence of <<key, element>> pairs already sorted
    IF ks = <<>> THEN << <<kx, x>> >>
    ELSE IF Head(ks)[1] >= kx THEN <<Head(ks)>> \o InsertDesc(x, kx, Tail(ks))
    ELSE << <<kx, x>> >> \o ks

RECURSIVE SortPairs(_)
SortPairs(ps) ==
    IF ps = <<>> THEN <<>>
    ELSE LET n == Len(ps)
             init == SortPairs(SubSeq(ps, 1, n - 1))
         IN  InsertDesc(ps[n][2], ps[n][1], init)

SortByAverageBitrate(seq) ==
    LET s == SortPairs([i \in 1..Len(seq) |-> <<seq[i].averageBitrate, seq[i]>>])
    IN  [i \in 1..Len(s) |-> s[i][2]]

SortByAudioBitrate(seq) ==
    LET s == SortPairs([i \in 1..Len(seq) |-> <<seq[i].audioBitrate, seq[i]>>])
    IN  [i \in 1..Len(s) |-> s[i][2]]

\* mutant: the sample rate is not looked at
filterAnyRate(format) ==
    /\ format.codecs = "opus"
    /\ format.container = "webm"

filter(format) ==
    /\ format.codecs = "opus"
    /\ format.container = "webm"
    /\ format.audioSampleRate # "undefined"
    /\ ParseInt(format.audioSampleRate) = TargetSampleRate

IsWhitelisted(format) == format.itag \in LiveItags
HasAverageBitrate(format) == format.averageBitrate # 0
NoBitrate(format) == format.bitrate = 0

\* nextBestFormat; called only on a non-empty list (formats[0] is read first)
nextBestFormat(formats) ==
    IF formats[1].live
    THEN Find(SortByAudioBitrate(formats), IsWhitelisted)
    ELSE LET fs == SortByAverageBitrate(Filter(formats, HasAverageBitrate))
             vbr == Find(fs, NoBitrate)
         IN  IF vbr # NullFormat THEN vbr
             ELSE IF fs = <<>> THEN NullFormat ELSE fs[1]

\* what getStream pipes into the capacitor: the remote bytes, or ffmpeg's output
StreamSource(sel) == IF sel.canDirectPlay THEN "direct" ELSE "transcode"

\* The format choice of getStream: [err, format, canDirectPlay]
SelectFormat(formats) ==
    LET first == Find(formats, filter)
    IN  IF first # NullFormat
        THEN [err |-> "none", format |-> first, canDirectPlay |-> TRUE]
        ELSE IF formats = <<>>
        THEN [err |-> "TypeError", format |-> NullFormat, canDirectPlay |-> FALSE]
        ELSE LET nb == nextBestFormat(formats)
             IN  IF nb = NullFormat
                 THEN [err |-> "NoSuitableFormat", format |-> NullFormat,
                       canDirectPlay |-> FALSE]
                 ELSE [err |-> "none", format |-> nb, canDirectPlay |-> FALSE]

\* ---------------------------------------------------------------- state
NullDispatcher == [url |-> "none", paused |-> FALSE]
\* A cache write stream: writing or renaming, its url, the path its file is at now
Writer(st, url, loc) == [st |-> st, url |-> url, loc |-> loc]
NoInfo == [formats |-> <<>>, format |-> NullFormat, canDirectPlay |-> FALSE]

\* A suspended call: the public method it runs for, where it waits, the song it
\* captured, the seek offset, nOfChecks
Task(op, pc, url, pos, n) == [op |-> op, pc |-> pc, url |-> url, pos |-> pos, n |-> n]

\* the public method behind a call: an end-of-track advance calls play()
CallOf(op) == IF op = "seek" THEN "seek" ELSE "play"

\* What a step did: the operation (for a suspended call, the await it resumed from),
\* its error, how it ended; the song and source handed to the transport with the seek
\* offset; the polls waitForCache made; the engine state before the step; the status
\* at a teardown; whether the tick was running when the tracker was started; the
\* public method a suspended step belongs to
Did(op, err, how) ==
    [op |-> op, err |-> err, how |-> how, url |-> "none", src |-> "none", seek |-> 0,
     n |-> 0, pre |-> <<>>, at |-> "none", ran |-> FALSE, call |-> "none",
     info |-> NoInfo]

\* status, dispatcher, position, timer handle and live timers, as they are now
EngineSnap ==
    [status |-> status, dispatcher |-> dispatcher, position |-> positionInSeconds,
     interval |-> playPositionInterval, timers |-> timers]

Snap(op, err, how) == [Did(op, err, how) EXCEPT !.pre = EngineSnap]

Obs(op, err, how, url, src, offset) ==
    [Did(op, err, how) EXCEPT !.url = url, !.src = src, !.seek = offset]

engineVars == <<status, dispatcher, playPositionInterval, timers, positionInSeconds>>
connVars == <<voiceConnection, connListening>>
cacheVars == <<temp, final, writers>>

InitEngine ==
    /\ status = DISCONNECTED
    /\ voiceConnection = FALSE
    /\ connListening = FALSE
    /\ dispatcher = NullDispatcher
    /\ playPositionInterval = 0
    /\ timers = {}
    /\ positionInSeconds = 0
    /\ queue = <<>>
    /\ temp = [u \in Urls |-> "none"]
    /\ final = [u \in Urls |-> "none"]
    /\ writers = EmptyBag
    /\ tasks = EmptyBag

Init ==
    /\ InitEngine
    /\ last = Did("init", "none", "none")

\* ---------------------------------------------------------------- helpers
Min(S) == CHOOSE i \in S : \A j \in S : i <= j

Suspended == BagToSet(tasks)
Without(k) == tasks (-) SetToBag({k})
Moved(k, k2) == Without(k) (+) SetToBag({k2})

getCurrentSong(q) == IF Len(q) = 0 THEN "none" ELSE q[1]

\* queue.forward()
forward(q) == Tail(q)

isCached(url) == final[url] # "none"

\* the writers still writing into the file at path loc of url
WritingAt(url, loc) ==
    { w \in BagToSet(writers) : w.st = "writing" /\ w.url = url /\ w.loc = loc }

\* mutant: pause() without its guard
CanPauseAlways(st) == TRUE

\* pause(): the guard, and what it does to the dispatcher
CanPause(st) == st = PLAYING
PausedDispatcher(d) == IF d.url # "none" THEN [d EXCEPT !.paused = TRUE] ELSE d

\* mutant: disconnect() that tears down without pausing
PausesNever(st) == FALSE

\* disconnect(): pause first?
PausesFirst(st) == st = PLAYING

\* mutant: the previous interval is never cleared
ClearedNothing(h, tm) == tm

\* stopTrackingPosition / the clearInterval of startTrackingPosition
ClearedTimers(h, tm) == IF h # 0 THEN tm \ {h} ELSE tm

\* setInterval: a handle no live timer has
FreshTimer(h, tm) == Min(TimerIds \ ClearedTimers(h, tm))

\* startTrackingPosition(initalPosition?): the position after "if (initalPosition)"
TrackedPosition(given, initial, pos) == IF given /\ initial # 0 THEN initial ELSE pos

\* waitForCache: the test after nOfChecks++
BudgetExhausted(n, max) == n > max

\* a call that throws before it changed anything (the queue is the caller's)
Throw(op, err) ==
    /\ last' = Snap(op, err, "throw")
    /\ UNCHANGED <<engineVars, connVars, cacheVars, tasks>>

\* a call that suspends at its first await
Spawn(op, pc, url, pos) ==
    /\ BagCardinality(tasks) < MaxTasks
    /\ tasks' = tasks (+) SetToBag({Task(CallOf(op), pc, url, pos, 0)})
    /\ last' = Did(op, "pending", "call")
    /\ UNCHANGED <<engineVars, connVars, cacheVars>>

\* mutant: status is set to Playing before the await, and the rejection leaves it
FailAfterStatus(k, err, n) ==
    /\ tasks' = Without(k)
    /\ status' = PLAYING
    /\ last' = [Obs(k.pc, err, "throw", k.url, "none", k.pos)
                    EXCEPT !.n = n, !.pre = EngineSnap, !.call = k.op]
    /\ UNCHANGED <<dispatcher, playPositionInterval, timers, positionInSeconds,
                   connVars, cacheVars, queue>>

\* a suspended call that rejects, after n polls of waitForCache
Fail(k, err, n) ==
    /\ tasks' = Without(k)
    /\ last' = [Obs(k.pc, err, "throw", k.url, "none", k.pos)
                    EXCEPT !.n = n, !.pre = EngineSnap, !.call = k.op]
    /\ UNCHANGED <<engineVars, connVars, cacheVars, queue>>

\* a suspended call that moves on to its next await
Await(k, pc) ==
    /\ tasks' = Moved(k, [k EXCEPT !.pc = pc])
    /\ last' = Did("env", "none", "none")
    /\ UNCHANGED <<engineVars, connVars, cacheVars, queue>>

\* the tail of seek after "await this.waitForCache": the cache is the caller's
SeekTail(k) ==
    /\ dispatcher' = [url |-> k.url, paused |-> FALSE]
    /\ connListening' = TRUE
    /\ positionInSeconds' = TrackedPosition(TRUE, k.pos, positionInSeconds)
    /\ playPositionInterval' = FreshTimer(playPositionInterval, timers)
    /\ timers' = ClearedTimers(playPositionInterval, timers)
                    \cup {FreshTimer(playPositionInterval, timers)}
    /\ status' = PLAYING
    /\ tasks' = Without(k)
    /\ last' = [Obs(k.pc, "none", "seek", k.url, "file", k.pos)
                    EXCEPT !.ran = timers # {}, !.call = k.op]
    /\ UNCHANGED <<voiceConnection, queue>>

\* the tail of play after the source is known: the cache is the caller's
PlayTail(k, src) ==
    /\ dispatcher' = [url |-> k.url, paused |-> FALSE]
    /\ connListening' = TRUE
    /\ status' = PLAYING
    /\ positionInSeconds' = TrackedPosition(FALSE, 0, positionInSeconds)
    /\ playPositionInterval' = FreshTimer(playPositionInterval, timers)
    /\ timers' = ClearedTimers(playPositionInterval, timers)
                    \cup {FreshTimer(playPositionInterval, timers)}
    /\ tasks' = Without(k)
    /\ last' = [Obs(k.pc, "none", "fresh", k.url, src, 0)
                    EXCEPT !.ran = timers # {}, !.call = k.op]
    /\ UNCHANGED <<voiceConnection, queue>>

\* ---------------------------------------------------------------- connection
\* connect(channel), once channel.join() has resolved
connect ==
    /\ ~voiceConnection
    /\ voiceConnection' = TRUE
    /\ connListening' = FALSE
    /\ last' = Did("env", "none", "none")
    /\ UNCHANGED <<engineVars, queue, cacheVars, tasks>>

disconnect ==
    IF voiceConnection
    THEN IF PausesFirst(status) /\ ~CanPause(status)
         THEN Throw("disconnect", "NotPlaying") /\ UNCHANGED queue
         ELSE /\ status' = IF PausesFirst(status) THEN PAUSED ELSE status
              /\ dispatcher' = IF PausesFirst(status) THEN PausedDispatcher(dispatcher)
                               ELSE dispatcher
              /\ timers' = IF PausesFirst(status)
                           THEN ClearedTimers(playPositionInterval, timers) ELSE timers
              /\ last' = [Snap("disconnect", "none", "teardown")
                            EXCEPT !.at = IF PausesFirst(status) THEN PAUSED ELSE status]
              /\ UNCHANGED <<playPositionInterval, positionInSeconds, connVars,
                             queue, cacheVars, tasks>>
    ELSE /\ last' = Snap("disconnect", "none", "noop")
         /\ UNCHANGED <<engineVars, connVars, queue, cacheVars, tasks>>

\* the connection's 'disconnect' event (after a teardown, or when the transport drops
\* the connection by itself) reaches the listeners of attachListeners
OnDisconnect ==
    /\ voiceConnection
    /\ IF connListening
       THEN /\ status' = IF CanPause(status) THEN PAUSED ELSE status
            /\ timers' = IF CanPause(status)
                         THEN ClearedTimers(playPositionInterval, timers) ELSE timers
            /\ dispatcher' = NullDispatcher
            /\ last' = Did("onDisconnect", "none", "handled")
       ELSE /\ UNCHANGED <<status, timers, dispatcher>>
            /\ last' = Did("env", "none", "none")
    /\ UNCHANGED <<playPositionInterval, positionInSeconds, connVars, queue,
                   cacheVars, tasks>>

\* ---------------------------------------------------------------- seek
\* mutant: the current song is looked up before the connection is checked
SeekBodySongFirst(op, positionSeconds, q) ==
    IF getCurrentSong(q) = "none" THEN Throw(op, "NoCurrentSong")
    ELSE IF ~voiceConnection THEN Throw(op, "NotConnected")
    ELSE Spawn(op, "wfc_first", getCurrentSong(q), positionSeconds)

\* seek(positionSeconds) up to "await this.waitForCache(currentSong.url)"; q is the
\* queue at the call
SeekBody(op, positionSeconds, q) ==
    IF ~voiceConnection THEN Throw(op, "NotConnected")
    ELSE IF getCurrentSong(q) = "none" THEN Throw(op, "NoCurrentSong")
    ELSE Spawn(op, "wfc_first", getCurrentSong(q), positionSeconds)

seek(p) ==
    /\ SeekBody("seek", p, queue)
    /\ UNCHANGED queue

forwardSeek(d) ==
    /\ positionInSeconds + d >= -MaxRewind
    /\ positionInSeconds + d <= MaxPos
    /\ SeekBody("seek", positionInSeconds + d, queue)
    /\ UNCHANGED queue

\* waitForCache: the first "await this.isCached(url)"
WfcFirst(k) ==
    /\ k.pc = "wfc_first"
    /\ IF isCached(k.url)
       THEN SeekTail(k) /\ UNCHANGED cacheVars
       ELSE Await(k, "wfc_poll")

\* waitForCache: one run of the setInterval callback
WfcPoll(k) ==
    /\ k.pc = "wfc_poll"
    /\ IF isCached(k.url)
       THEN SeekTail(k) /\ UNCHANGED cacheVars
       ELSE IF BudgetExhausted(k.n + 1, MaxRetries)
            THEN Fail(k, "Timeout", k.n + 1)
            ELSE /\ tasks' = Moved(k, [k EXCEPT !.n = @ + 1])
                 /\ last' = Did("env", "none", "none")
                 /\ UNCHANGED <<engineVars, connVars, cacheVars, queue>>

\* ---------------------------------------------------------------- play
\* mutant: a paused engine without a dispatcher starts the head item afresh
PlayBodyNoDelegate(op, q) ==
    IF ~voiceConnection THEN Throw(op, "NotConnected")
    ELSE IF status = PAUSED /\ dispatcher.url # "none"
    THEN /\ dispatcher' = [dispatcher EXCEPT !.paused = FALSE]
         /\ status' = PLAYING
         /\ last' = Snap(op, "none", "resume")
         /\ UNCHANGED <<playPositionInterval, timers, positionInSeconds,
                        connVars, cacheVars, tasks>>
    ELSE IF getCurrentSong(q) = "none" THEN Throw(op, "QueueEmpty")
    ELSE Spawn(op, "play_check", getCurrentSong(q), 0)

\* play() up to its first await; q is the queue at the call
PlayBody(op, q) ==
    IF ~voiceConnection THEN Throw(op, "NotConnected")
    ELSE IF status = PAUSED
    THEN IF dispatcher.url # "none"
         THEN /\ dispatcher' = [dispatcher EXCEPT !.paused = FALSE]
              /\ status' = PLAYING
              /\ last' = Snap(op, "none", "resume")
              /\ UNCHANGED <<playPositionInterval, timers, positionInSeconds,
                             connVars, cacheVars, tasks>>
         ELSE SeekBody(op, positionInSeconds, q)
    ELSE IF getCurrentSong(q) = "none" THEN Throw(op, "QueueEmpty")
    ELSE Spawn(op, "play_check", getCurrentSong(q), 0)

play ==
    /\ PlayBody("play", queue)
    /\ UNCHANGED queue

\* play: after "await this.isCached(currentSong.url)"
PlayCheck(k) ==
    /\ k.pc = "play_check"
    /\ IF isCached(k.url)
       THEN PlayTail(k, "file") /\ UNCHANGED cacheVars
       ELSE Await(k, "gs_check")

\* getStream: after "await this.isCached(url)"
GsCheck(k) ==
    /\ k.pc = "gs_check"
    /\ IF isCached(k.url)
       THEN PlayTail(k, "file") /\ UNCHANGED cacheVars
       ELSE Await(k, "gs_info")

\* createWriteStream(cacheTempPath) by writer w, piped from the capacitor
OpenTemp(url) ==
    /\ writers' = writers (+) SetToBag({Writer("writing", url, "temp")})
    /\ temp' = [temp EXCEPT ![url] = IF WritingAt(url, "temp") # {} THEN "dirty"
                                     ELSE "clean"]
    /\ UNCHANGED final

\* mutant: the cache write stream is opened whether or not the content is live
GsInfoAlwaysCaches(k, formats) ==
    /\ k.pc = "gs_info"
    /\ LET sel == SelectFormat(formats)
       IN  IF sel.err # "none" THEN Fail(k, sel.err, 0)
           ELSE /\ BagCardinality(writers) < MaxWriters
                /\ OpenTemp(k.url)
                /\ PlayTail(k, StreamSource(sel))

\* getStream: ytdl.getInfo resolved with these formats; the rest of getStream and of play
GsInfo(k, formats) ==
    /\ k.pc = "gs_info"
    /\ LET sel == SelectFormat(formats)
       IN  IF sel.err # "none" THEN Fail(k, sel.err, 0)
           ELSE /\ IF IsLiveContent(k.url) THEN UNCHANGED cacheVars
                   ELSE /\ BagCardinality(writers) < MaxWriters
                        /\ OpenTemp(k.url)
                /\ PlayTail(k, StreamSource(sel))

\* getStream: ytdl.getInfo rejected
GsInfoFail(k) ==
    /\ k.pc = "gs_info"
    /\ Fail(k, "GetInfoFailed", 0)

pause ==
    IF ~CanPause(status) THEN Throw("pause", "NotPlaying") /\ UNCHANGED queue
    ELSE /\ status' = PAUSED
         /\ dispatcher' = PausedDispatcher(dispatcher)
         /\ timers' = ClearedTimers(playPositionInterval, timers)
         /\ last' = Snap("pause", "none", "paused")
         /\ UNCHANGED <<playPositionInterval, positionInSeconds, connVars, cacheVars,
                        tasks, queue>>

\* ---------------------------------------------------------------- events
\* the dispatcher's 'speaking' event reaches the listener of attachListeners
OnSpeaking(isSpeaking) ==
    /\ dispatcher.url # "none"
    /\ IF ~isSpeaking /\ status = PLAYING /\ Len(queue) > 0
       THEN /\ queue' = forward(queue)
            /\ PlayBody("auto", forward(queue))
       ELSE /\ last' = Did("env", "none", "none")
            /\ UNCHANGED <<engineVars, connVars, cacheVars, tasks, queue>>

\* one period of the position interval elapses: every live timer fires once
Tick ==
    /\ positionInSeconds + Cardinality(timers) <= MaxPos
    /\ positionInSeconds' = positionInSeconds + Cardinality(timers)
    /\ last' = Did("env", "none", "none")
    /\ UNCHANGED <<status, dispatcher, playPositionInterval, timers, connVars,
                   cacheVars, tasks, queue>>

\* the external queue gets an item
QueueAdd(url) ==
    /\ Len(queue) < MaxQueue
    /\ queue' = Append(queue, url)
    /\ last' = Did("env", "none", "none")
    /\ UNCHANGED <<engineVars, connVars, cacheVars, tasks>>

\* ---------------------------------------------------------------- cache writers
\* the write stream has written everything: 'finish', fs.rename is issued
WriterFinish(w) ==
    /\ w.st = "writing"
    /\ writers' = (writers (-) SetToBag({w}))
                    (+) SetToBag({Writer("renaming", w.url, "none")})
    /\ last' = Did("env", "none", "none")
    /\ UNCHANGED <<engineVars, connVars, temp, final, tasks, queue>>

\* rename(2) moves the file at the temporary path, and its open writers, to the
\* final path; the file that was there is unlinked
Relocated(x, url) ==
    IF x.url = url /\ x.loc = "temp" THEN [x EXCEPT !.loc = "final"]
    ELSE IF x.url = url /\ x.loc = "final" THEN [x EXCEPT !.loc = "unlinked"]
    ELSE x

RECURSIVE RelocatedAll(_, _)
RelocatedAll(ws, url) ==
    IF ws = EmptyBag THEN EmptyBag
    ELSE LET x == CHOOSE y \in BagToSet(ws) : TRUE
         IN  SetToBag({Relocated(x, url)}) (+) RelocatedAll(ws (-) SetToBag({x}), url)

\* fs.rename(cacheTempPath, cachedPath) takes effect
WriterRename(w) ==
    /\ w.st = "renaming"
    /\ IF temp[w.url] # "none"
       THEN /\ final' = [final EXCEPT ![w.url] = temp[w.url]]
            /\ temp' = [temp EXCEPT ![w.url] = "none"]
            /\ writers' = RelocatedAll(writers (-) SetToBag({w}), w.url)
            /\ last' = Did("env", "none", "none")
       ELSE /\ writers' = writers (-) SetToBag({w})
            /\ last' = Did("rename", "ENOENT", "throw")
            /\ UNCHANGED <<temp, final>>
    /\ UNCHANGED <<engineVars, connVars, tasks, queue>>

\* the write stream fails before 'finish'
WriterFail(w) ==
    /\ w.st = "writing"
    /\ temp' = IF w.loc = "temp" THEN [temp EXCEPT ![w.url] = "dirty"] ELSE temp
    /\ final' = IF w.loc = "final" THEN [final EXCEPT ![w.url] = "dirty"] ELSE final
    /\ writers' = writers (-) SetToBag({w})
    /\ last' = Did("env", "none", "none")
    /\ UNCHANGED <<engineVars, connVars, tasks, queue>>

\* ---------------------------------------------------------------- specification
Next ==
    \/ connect
    \/ disconnect
    \/ OnDisconnect
    \/ \E p \in 0..MaxPos : seek(p)
    \/ \E d \in {-1, 1} : forwardSeek(d)
    \/ play
    \/ pause
    \/ \E k \in Suspended : WfcFirst(k)
    \/ \E k \in Suspended : WfcPoll(k)
    \/ \E k \in Suspended : PlayCheck(k)
    \/ \E k \in Suspended : GsCheck(k)
    \/ \E k \in Suspended, fs \in ShortLists : GsInfo(k, fs)
    \/ \E k \in Suspended : GsInfoFail(k)
    \/ \E b \in BOOLEAN : OnSpeaking(b)
    \/ Tick
    \/ \E u \in Urls : QueueAdd(u)
    \/ \E w \in BagToSet(writers) : WriterFinish(w)
    \/ \E w \in BagToSet(writers) : WriterRename(w)
    \/ \E w \in BagToSet(writers) : WriterFail(w)

Spec == Init /\ [][Next]_vars

\* ---------------------------------------------------------------- format selection alone
\* getStream's choice of a format, on every list ytdl.getInfo may return
InitFormats ==
    /\ InitEngine
    /\ \E fs \in FormatLists :
          last = [Did("getInfo", "none", "none") EXCEPT !.info.formats = fs]

ChooseFormat ==
    /\ last.op = "getInfo"
    /\ LET sel == SelectFormat(last.info.formats)
       IN  last' = [Did("getStream", sel.err,
                        IF sel.err # "none" THEN "throw" ELSE StreamSource(sel))
                    EXCEPT !.info = [formats |-> last.info.formats,
                                     format |-> sel.format,
                                     canDirectPlay |-> sel.canDirectPlay]]
    /\ UNCHANGED <<engineVars, connVars, cacheVars, tasks, queue>>

SpecFormats == InitFormats /\ [][ChooseFormat]_vars

\* ================================================================ claims

\* ---------------------------------------------------------------- C1
\* C1 (as claimed): isCached(url) is never true while a write for that url is still
\* in progress: no cache writer is still writing into the file at the final path.
C1_NeverCachedWhileWriting ==
    \A u \in Urls : isCached(u) => WritingAt(u, "final") = {}

\* ---------------------------------------------------------------- C2
\* C2: pause() throws 'Not currently playing.' exactly when status is not Playing
\* (Disconnected or Paused), and the rejected call leaves status, dispatcher (the
\* transport's pause is not called), position, timer handle and live timers as they
\* were.
C2_PauseRejected ==
    last.op = "pause"
        => /\ last.err = "NotPlaying" <=> last.pre.status \in {DISCONNECTED, PAUSED}
           /\ last.err = "NotPlaying" => (last.how = "throw" /\ EngineSnap = last.pre)

\* a pause() was rejected while Paused, with a dispatcher attached
C2_Witness ==
    /\ last.op = "pause" /\ last.err = "NotPlaying"
    /\ status = PAUSED
    /\ dispatcher.url # "none"

\* ---------------------------------------------------------------- C3
\* C3 (as claimed): every play() that starts a new source for the head item (the
\* auto-advance to B included) leaves the position at 0 and the status Playing.
C3_FreshPlayStartsAtZero ==
    last.how = "fresh" => (positionInSeconds = 0 /\ status = PLAYING)

\* ---------------------------------------------------------------- C4
\* C4 (as claimed): play() from Paused with a dispatcher attached resumes that
\* dispatcher without a new acquisition, sets status Playing, keeps the position, and
\* the position keeps advancing by 1 per tick afterwards (exactly one live timer).
C4_ResumeKeepsTicking ==
    last.how = "resume"
        => /\ status = PLAYING
           /\ dispatcher = [last.pre.dispatcher EXCEPT !.paused = FALSE]
           /\ positionInSeconds = last.pre.position
           /\ Cardinality(timers) = 1

\* ---------------------------------------------------------------- C5
\* C5 (as claimed): when seek(p) completes, p >= 0 (p = 0 included), the cached file
\* of the item exists and was started at offset p, the position equals p and the
\* status is Playing.
C5_SeekSetsPosition ==
    (last.how = "seek" /\ last.seek >= 0)
        => /\ isCached(last.url)
           /\ last.src = "file"
           /\ positionInSeconds = last.seek
           /\ status = PLAYING

\* ---------------------------------------------------------------- C6
\* C6 (as claimed): waitForCache with maxRetries = N on a url that never becomes
\* cached times out after exactly N polls of the interval.
C6_TimeoutAfterNPolls ==
    last.err = "Timeout" => last.n = MaxRetries

\* ---------------------------------------------------------------- C7
\* C7: on every encoding list, getStream plays directly if and only if some encoding
\* is opus/webm/48000; it then takes the first such encoding in list order and does
\* not transcode; with no such encoding the stream it returns is the transcoder's.
C7_DirectPlayIffNative ==
    last.op = "getStream"
        => LET fs == last.info.formats
               M == { i \in 1..Len(fs) : /\ fs[i].codecs = "opus"
                                          /\ fs[i].container = "webm"
                                          /\ fs[i].audioSampleRate = "48000" }
           IN  /\ last.info.canDirectPlay <=> M # {}
               /\ M # {} => /\ last.err = "none"
                            /\ last.how = "direct"
                            /\ last.info.format = fs[Min(M)]
               /\ (M = {} /\ last.err = "none") => last.how = "transcode"

\* a direct play whose encoding is the second of the list
C7_Witness ==
    /\ last.op = "getStream" /\ last.how = "direct"
    /\ Len(last.info.formats) = 2
    /\ last.info.formats[1].codecs # "opus"
    /\ last.info.format = last.info.formats[2]

\* ---------------------------------------------------------------- C8
\* C8: play() throws the not-connected error exactly when no connection is held, the
\* empty-queue error only with an empty queue and a status other than Paused, and goes
\* on to acquire a source only with a head item; a failed acquisition (no suitable
\* format, getInfo failing) rejects play(). Every such failure leaves status,
\* dispatcher (nothing is started on the transport), position and timers as they were.
C8_PlayFailures ==
    /\ last.op = "play"
        => /\ last.err = "NotConnected" <=> ~voiceConnection
           /\ last.err = "QueueEmpty" => (queue = <<>> /\ last.pre.status # PAUSED)
           /\ last.how = "call" => queue # <<>>
           /\ last.err # "none" /\ last.err # "pending"
                => (last.how = "throw" /\ EngineSnap = last.pre)
    /\ last.op = "gs_info" /\ last.err # "none"
        => /\ last.err \in {"NoSuitableFormat", "TypeError", "GetInfoFailed"}
           /\ last.how = "throw"
           /\ EngineSnap = last.pre

\* an acquisition failed for want of a suitable format while another song was playing
C8_Witness ==
    /\ last.op = "gs_info" /\ last.err = "NoSuitableFormat"
    /\ status = PLAYING
    /\ dispatcher.url # last.url

\* ---------------------------------------------------------------- C9
\* C9: seek(p) throws the not-connected error exactly when no connection is held, the
\* no-current-song error only with an empty queue, and waits for the cache only with
\* a head item; it rejects with the timeout error only when the item is still not
\* cached after the retry budget. Every such failure leaves status, dispatcher
\* (nothing is started on the transport), position and timers as they were.
C9_SeekFailures ==
    /\ last.op = "seek"
        => /\ last.err = "NotConnected" <=> ~voiceConnection
           /\ last.err = "NoCurrentSong" => queue = <<>>
           /\ last.how = "call" => queue # <<>>
           /\ last.err # "pending" => (last.how = "throw" /\ EngineSnap = last.pre)
    /\ last.err = "Timeout"
        => /\ last.op = "wfc_poll"
           /\ last.how = "throw"
           /\ ~isCached(last.url)
           /\ last.n >= MaxRetries
           /\ EngineSnap = last.pre

\* a seek timed out while the item was playing from the remote stream
C9_Witness ==
    /\ last.err = "Timeout"
    /\ status = PLAYING
    /\ dispatcher.url = last.url

\* ---------------------------------------------------------------- C10
\* C10: disconnect() with a connection held pauses first when status is Playing
\* (dispatcher paused, tick stopped, status Paused), so the teardown is never issued
\* while status is Playing; any other status, and the position, are left as they
\* were. With no connection held it changes nothing.
C10_DisconnectPausesFirst ==
    last.op = "disconnect"
        => /\ last.how \in {"teardown", "noop"}
           /\ last.how = "noop" <=> ~voiceConnection
           /\ last.how = "noop" => EngineSnap = last.pre
           /\ last.how = "teardown"
                => /\ last.at # PLAYING
                   /\ positionInSeconds = last.pre.position
                   /\ IF last.pre.status = PLAYING
                      THEN /\ status = PAUSED
                           /\ dispatcher.url = last.pre.dispatcher.url
                           /\ dispatcher.url # "none" => dispatcher.paused
                           /\ timers = {}
                      ELSE EngineSnap = last.pre

\* a teardown issued from Playing, with a dispatcher attached
C10_Witness ==
    /\ last.op = "disconnect" /\ last.how = "teardown"
    /\ last.pre.status = PLAYING
    /\ last.pre.timers # {}
    /\ dispatcher.url # "none"

\* ---------------------------------------------------------------- C11
\* C11 (as claimed): the engine gets back to status Disconnected from Playing and
\* from Paused: once the connection's disconnect event has been handled (after
\* disconnect(), or when the transport drops the connection), status is Disconnected.
C11_DisconnectedAfterDisconnect ==
    (last.op = "onDisconnect" /\ last.how = "handled") => status = DISCONNECTED

\* what the code does instead: once status has left Disconnected, no operation and no
\* event brings it back
C11_StatusNeverReturns ==
    [][status # DISCONNECTED => status' # DISCONNECTED]_vars

\* ---------------------------------------------------------------- C12
\* C12 (as claimed): the queue only loses items through an end-of-track event taken
\* while status is Playing, which drops exactly the head; when items remain, play()
\* is begun for the new head; when the dropped item was the last one, no play()
\* failure is raised and the status does not change.
C12_EndOfTrack ==
    [][ /\ Len(queue') < Len(queue)
            => (status = PLAYING /\ queue' = Tail(queue) /\ last'.op = "auto")
        /\ (last'.op = "auto" /\ last' # last)
            => /\ status = PLAYING
               /\ queue' = Tail(queue)
               /\ queue' # <<>>
                    => /\ last'.how = "call"
                       /\ tasks' = tasks (+) SetToBag({Task("play", "play_check", queue'[1], 0, 0)})
               /\ queue' = <<>>
                    => /\ last'.how # "throw"
                       /\ status' = status
                       /\ tasks' = tasks ]_vars

\* what does hold of the end-of-track handling: the same, without the last-item case
C12_EndOfTrackWithItemsLeft ==
    [][ /\ Len(queue') < Len(queue)
            => (status = PLAYING /\ queue' = Tail(queue) /\ last'.op = "auto")
        /\ (last'.op = "auto" /\ last' # last)
            => /\ status = PLAYING
               /\ queue' = Tail(queue)
               /\ status' = status
               /\ queue' # <<>>
                    => /\ last'.how = "call"
                       /\ tasks' = tasks (+) SetToBag({Task("play", "play_check", queue'[1], 0, 0)})
               /\ queue' = <<>>
                    => (last'.err = "QueueEmpty" /\ tasks' = tasks) ]_vars

\* ---------------------------------------------------------------- C13
\* the fallback rule as the claim words it, on a list fs without a native encoding:
\* err and f are what getStream answered
C13_FallbackRule(fs, f, err) ==
    LET I == 1..Len(fs)
        W == { i \in I : fs[i].itag \in LiveItags }
        A == { i \in I : fs[i].averageBitrate # 0 }
        V == { i \in A : fs[i].bitrate = 0 }
        Q == IF fs # <<>> /\ fs[1].live THEN W ELSE IF V # {} THEN V ELSE A
        Best == IF fs # <<>> /\ fs[1].live
                THEN { i \in Q : \A j \in Q : fs[j].audioBitrate <= fs[i].audioBitrate }
                ELSE { i \in Q : \A j \in Q : fs[j].averageBitrate <= fs[i].averageBitrate }
    IN  IF Q = {} THEN err = "NoSuitableFormat"
        ELSE err = "none" /\ \E i \in Best : f = fs[i]

\* the lists the fallback claim is about: no opus/webm/48000 encoding, and all
\* encodings of one kind (a live source's are live, a finite source's are not)
C13_NoNative(fs) ==
    /\ \A i \in 1..Len(fs) : ~(/\ fs[i].codecs = "opus"
                               /\ fs[i].container = "webm"
                               /\ fs[i].audioSampleRate = "48000")
    /\ \A i, j \in 1..Len(fs) : fs[i].live = fs[j].live

\* C13 (as claimed): on every encoding list without a native encoding, the empty one
\* included, getStream answers as the fallback rule says: the best whitelisted
\* encoding by audio bitrate for a live source; for a finite one the best by average
\* bitrate among those that report one, without a fixed bitrate if there is such an
\* encoding; the no-suitable-format error, and no stream, when none qualifies.
C13_FallbackSelection ==
    (last.op = "getStream" /\ C13_NoNative(last.info.formats))
        => /\ C13_FallbackRule(last.info.formats, last.info.format, last.err)
           /\ last.err # "none" => last.how = "throw"
           /\ last.err = "none" => (last.how = "transcode" /\ ~last.info.canDirectPlay)

\* what does hold: the same on every non-empty list
C13_FallbackSelectionNonEmpty ==
    (last.op = "getStream" /\ C13_NoNative(last.info.formats)
        /\ last.info.formats # <<>>)
        => /\ C13_FallbackRule(last.info.formats, last.info.format, last.err)
           /\ last.err # "none" => last.how = "throw"
           /\ last.err = "none" => (last.how = "transcode" /\ ~last.info.canDirectPlay)

\* ---------------------------------------------------------------- C14
\* C14: an item marked live never has a temporary or a final cache file, nor a cache
\* writer; cache writers are only started by an acquisition that hands the transport
\* a stream (not a cached file), and such an acquisition starts exactly one writer,
\* at the temporary path of its item, when the item is not live and none when it is.
C14_LiveNeverCached ==
    /\ [](\A u \in Urls : IsLiveContent(u)
            => /\ temp[u] = "none"
               /\ final[u] = "none"
               /\ \A w \in BagToSet(writers) : w.url # u)
    /\ [][ /\ BagCardinality(writers') > BagCardinality(writers)
                => (last'.op = "gs_info" /\ last'.how = "fresh")
           /\ (last'.op = "gs_info" /\ last'.how = "fresh" /\ last' # last)
                => /\ last'.src \in {"direct", "transcode"}
                   /\ writers' = IF IsLiveContent(last'.url) THEN writers
                                 ELSE writers (+) SetToBag({Writer("writing", last'.url, "temp")})
         ]_vars

\* a live item has just been started from the remote stream
C14_Witness ==
    /\ last.op = "gs_info" /\ last.how = "fresh"
    /\ IsLiveContent(last.url)
    /\ dispatcher.url = last.url
    /\ status = PLAYING

\* ---------------------------------------------------------------- C15
\* C15 (as claimed): the position is >= 0 in every reachable state, rewinds by
\* forwardSeek with a negative delta included.
C15_PositionNonNegative == positionInSeconds >= 0

\* ---------------------------------------------------------------- C16
\* C16: at most one tick timer is live in every reachable state, and it is the one
\* playPositionInterval holds; an elapsed tick period adds exactly 1 to the position,
\* and only while a timer is live; a step that stops the tick keeps the position.
C16_AtMostOneTimer ==
    /\ [](Cardinality(timers) <= 1 /\ timers \subseteq {playPositionInterval})
    /\ [][ /\ (last'.op = "env" /\ positionInSeconds' # positionInSeconds)
                => (positionInSeconds' = positionInSeconds + 1 /\ timers # {})
           /\ (timers # {} /\ timers' = {})
                => positionInSeconds' = positionInSeconds ]_vars

\* the tracker was started while its tick was running, and one timer is live
C16_Witness ==
    /\ last.how \in {"fresh", "seek"}
    /\ last.ran
    /\ Cardinality(timers) = 1

\* ---------------------------------------------------------------- C17
\* C17 (as claimed): whenever the final file of an item exists, its content is one
\* complete stream and nothing is still being written into it, overlapping
\* acquisitions of the same item included.
C17_FinalIsComplete ==
    \A u \in Urls :
        final[u] # "none" => (final[u] = "clean" /\ WritingAt(u, "final") = {})

\* what does hold: a final file is complete and at rest unless two writers of its
\* item were open at once (a second writer is still open in the file, or the file
\* was truncated by a second createWriteStream)
C17_FinalCompleteWithoutOverlap ==
    [][ \A u \in Urls :
            (final'[u] # final[u] /\ final'[u] = "dirty")
                => \/ temp[u] = "dirty"
                   \/ WritingAt(u, "final") # {} ]_vars

C19_TickIffPlaying == (timers # {}) <=> (status = PLAYING)

\* what does hold: the tick is live only while Playing, it is stopped in Paused and
\* Disconnected, and it is live after every start of a source (fresh play, seek,
\* auto-advance); the resume of a paused dispatcher is the one way into Playing that
\* leaves it stopped
C19_TickOnlyWhilePlaying ==
    /\ timers # {} => status = PLAYING
    /\ last.how \in {"fresh", "seek"} => timers # {}
    /\ last.how \in {"paused", "teardown", "handled"} => timers = {}

\* ---------------------------------------------------------------- C20
\* C20 (as claimed): whenever a play() or seek() call has handed a source to the
\* transport, that source is the one of the item at the head of the queue.
C20_SourceIsHead ==
    last.how \in {"fresh", "seek"} => (queue # <<>> /\ queue[1] = last.url)

\* what does hold: the source handed over is the one of the item the call read as
\* head when it was made, and it is what the dispatcher plays
C20_SourceIsCapturedSong ==
    /\ last.how \in {"fresh", "seek"}
        => (last.url \in Urls /\ dispatcher = [url |-> last.url, paused |-> FALSE])
    /\ (last.how = "call" /\ last.op \in {"play", "seek", "auto"})
        => (queue # <<>> /\ \E k \in Suspended : k.url = queue[1])
====
